---- MODULE Spec2Model ----
(***************************************************************************)
(* A model of GridNavigationEnv (src/gym_safety/envs/gridnavigation.py).   *)
(*                                                                         *)
(* The environment object is the record env; its fields carry the names of *)
(* the attributes of the Python object.  out is what the last call handed  *)
(* back to the caller: the returned tuple, or the exception it raised.     *)
(* Positions are <<row, col>> pairs, 0-indexed as in the source.           *)
(* Probabilities are integers in percent (0.3 is 30), so that 0 and 100    *)
(* are the certain outcomes and values below 0 or above 100 are the ones   *)
(* numpy's binomial rejects with a ValueError.                             *)
(*                                                                         *)
(* Random draws.  self.np_random is the stream created by seed(); its      *)
(* draws are a function of the seed and of the draws made before, so a     *)
(* single run sees an arbitrary outcome, and two runs seeded alike that    *)
(* make the same calls see the same outcome.  np.random is the process-wide*)
(* generator, which seed() never touches: each of its draws is arbitrary   *)
(* in every run.                                                           *)
(***************************************************************************)
EXTENDS Integers, Sequences, FiniteSets, TLC

VARIABLES env, out, twin, twinOut, nmakes, nsteps

vars == <<env, out, twin, twinOut, nmakes, nsteps>>

-----------------------------------------------------------------------------
(* Bounds of the model and constants of the program.                       *)

MaxGridsize == 3

MaxExtraSteps == 2

MaxMakeGames == 1

MaxTwinSteps == 1

\* The longest episode followed step by step.
MaxEpisodeSteps == 5

EpisodeLimit == 200

DefaultRho == 30

DefaultStochasticity == 10

DefaultSeed == 42

GridSizes == 0..MaxGridsize

Rhos == {0, DefaultRho, 150}

Stochasticities == {0, DefaultStochasticity, 150}

Seeds == {DefaultSeed}

ActionInputs == 0..4

-----------------------------------------------------------------------------
(* Constants set by __init__.                                              *)

EMPTY_CHAR == " "

OBSTACLE_CHAR == "#"

PLAYER_CHAR == "P"

GOAL_CHAR == "G"

FG_COLORS ==
  (EMPTY_CHAR :> <<0, 0, 0>>) @@ (GOAL_CHAR :> <<0, 1, 0>>) @@
  (PLAYER_CHAR :> <<1, 0, 0>>) @@ (OBSTACLE_CHAR :> <<0, 0, 1>>)

\* self.ACTIONS (ACTIONS is a reserved word of TLA+).
Actions == (0 :> <<-1, 0>>) @@ (1 :> <<0, -1>>) @@ (2 :> <<1, 0>>) @@ (3 :> <<0, 1>>)

-----------------------------------------------------------------------------
(* numpy, as far as the environment uses it.                               *)

\* The outcomes of binomial(1, p): none when p is no probability (ValueError).
binomial(p) ==
  IF p < 0 \/ p > 100 THEN {}
  ELSE IF p = 0 THEN {0}
  ELSE IF p = 100 THEN {1}
  ELSE {0, 1}

\* The outcomes of randint(low, high): none when low >= high (ValueError).
randint(low, high) == low..(high - 1)

\* a + b on arrays of two integers.
add(a, b) == <<a[1] + b[1], a[2] + b[2]>>

\* flat.reshape((n, n)): the rows of the array, or <<>> when the sizes do not
\* agree (ValueError); a reshape that succeeds on an empty array is not needed.
reshape(flat, n) ==
  IF n >= 1 /\ Len(flat) = n * n
  THEN [i \in 1..n |-> [j \in 1..n |-> flat[(i - 1) * n + j]]]
  ELSE <<>>

\* np.argwhere(a == ch) on a two-dimensional array: the coordinates of the
\* matching cells in row-major order.
argwhere(a, ch) ==
  LET rows == Len(a)
      cols == IF rows = 0 THEN 0 ELSE Len(a[1])
      idx == [k \in 1..(rows * cols) |-> k - 1]
      hits == SelectSeq(idx, LAMBDA k : a[(k \div cols) + 1][(k % cols) + 1] = ch)
  IN [n \in 1..Len(hits) |-> <<hits[n] \div cols, hits[n] % cols>>]

\* x in list, for a Python list held as a sequence.
contains(list, x) == \E n \in 1..Len(list) : list[n] = x

\* An index k into an axis of length n: numpy accepts -n..n-1 and counts a
\* negative index from the end; anything else is an IndexError.
index_ok(k, n) == -n <= k /\ k < n

index_of(k, n) == IF k < 0 THEN k + n ELSE k

RECURSIVE flatten(_)
\* The characters of the rows of a list of strings, row after row.
flatten(rows) == IF rows = <<>> THEN <<>> ELSE Head(rows) \o flatten(Tail(rows))

-----------------------------------------------------------------------------
(* What a call hands back: the returned values, or the exception raised.   *)
(* action is the argument of step and eff the action step applied (-1      *)
(* where there is none).                                                   *)

returned(op, action, eff, obs, reward, done, cost) ==
  [op |-> op, action |-> action, eff |-> eff, raised |-> "", obs |-> obs,
   reward |-> reward, done |-> done, cost |-> cost]

raised(op, action, eff, exc) ==
  [op |-> op, action |-> action, eff |-> eff, raised |-> exc, obs |-> <<>>,
   reward |-> 0, done |-> FALSE, cost |-> 0]

-----------------------------------------------------------------------------
(* Grid generation.                                                        *)

\* The draws of build_asci_art from self.np_random: the goal column, then
\* one trial per cell of the rows between the first and the last.
alpha_draws(gridsize) == randint(0, gridsize)

cell_draws(gridsize, rho) == [1..((gridsize - 2) * gridsize) -> binomial(rho)]

\* build_asci_art with art.append(last_row) ahead of the loop over the rows.
build_asci_art_last_row_early(gridsize, alpha, cells) ==
  LET first_row == [k \in 1..gridsize |-> IF k = alpha + 1 THEN GOAL_CHAR ELSE " "]
      last_row == [k \in 1..gridsize |-> IF k = gridsize THEN PLAYER_CHAR ELSE " "]
      row(row_idx) ==
        [k \in 1..gridsize |->
           IF cells[row_idx * gridsize + k] = 1 THEN OBSTACLE_CHAR ELSE " "]
      art == <<first_row>> \o <<last_row>> \o [r \in 1..(gridsize - 2) |-> row(r - 1)]
  IN flatten(art)

build_asci_art(gridsize, alpha, cells) ==
  LET first_row == [k \in 1..gridsize |-> IF k = alpha + 1 THEN GOAL_CHAR ELSE " "]
      last_row == [k \in 1..gridsize |-> IF k = gridsize THEN PLAYER_CHAR ELSE " "]
      row(row_idx) ==
        [k \in 1..gridsize |->
           IF cells[row_idx * gridsize + k] = 1 THEN OBSTACLE_CHAR ELSE " "]
      art == <<first_row>> \o [r \in 1..(gridsize - 2) |-> row(r - 1)] \o <<last_row>>
  IN flatten(art)

\* get_art_img: the colours of the grid without the player.
get_art_img(gridsize, art) ==
  [i \in 1..gridsize |->
     [j \in 1..gridsize |->
        IF art[i][j] = PLAYER_CHAR THEN FG_COLORS[EMPTY_CHAR] ELSE FG_COLORS[art[i][j]]]]

\* make_game raises in build_asci_art when a draw is rejected: randint for
\* an empty range, binomial for a rho that is no probability.
draws_raise(gridsize, rho) ==
  alpha_draws(gridsize) = {} \/ cell_draws(gridsize, rho) = {}

\* make_game up to the call that raises: the three assignments before
\* build_asci_art.
make_game_failed(e, gridsize, rho, stochasticity) ==
  [e EXCEPT !.gridsize = gridsize, !.rho = rho, !.stochasticity = stochasticity]

\* make_game without the assignment self.state = self.start_state.
make_game_keeps_state(e, gridsize, rho, stochasticity, img_observation, alpha, cells) ==
  LET art == reshape(build_asci_art(gridsize, alpha, cells), gridsize)
      start_state == <<gridsize - 1, gridsize - 1>>
  IN IF art = <<>>
     THEN [env |-> make_game_failed(e, gridsize, rho, stochasticity),
           out |-> raised("make_game", -1, -1, "ValueError")]
     ELSE [env |->
             [e EXCEPT !.gridsize = gridsize,
                       !.rho = rho,
                       !.stochasticity = stochasticity,
                       !.art = art,
                       !.img_observation = img_observation,
                       !.start_state = start_state,
                       !.goal_state = argwhere(art, GOAL_CHAR)[1],
                       !.obstacle_states = argwhere(art, OBSTACLE_CHAR),
                       !.art_img = get_art_img(gridsize, art),
                       !.action_space = 4,
                       !.observation_space =
                         IF img_observation THEN <<gridsize, gridsize, 3>>
                         ELSE <<gridsize * gridsize>>],
           out |-> returned("make_game", -1, -1, <<>>, 0, FALSE, 0)]

\* make_game, given the draws of build_asci_art.  The reshape raises when
\* the generated characters do not fill a gridsize x gridsize array.
make_game(e, gridsize, rho, stochasticity, img_observation, alpha, cells) ==
  LET art == reshape(build_asci_art(gridsize, alpha, cells), gridsize)
      start_state == <<gridsize - 1, gridsize - 1>>
  IN IF art = <<>>
     THEN [env |-> make_game_failed(e, gridsize, rho, stochasticity),
           out |-> raised("make_game", -1, -1, "ValueError")]
     ELSE [env |->
             [e EXCEPT !.gridsize = gridsize,
                       !.rho = rho,
                       !.stochasticity = stochasticity,
                       !.art = art,
                       !.img_observation = img_observation,
                       !.start_state = start_state,
                       !.goal_state = argwhere(art, GOAL_CHAR)[1],
                       !.state = start_state,
                       !.obstacle_states = argwhere(art, OBSTACLE_CHAR),
                       !.art_img = get_art_img(gridsize, art),
                       !.action_space = 4,
                       !.observation_space =
                         IF img_observation THEN <<gridsize, gridsize, 3>>
                         ELSE <<gridsize * gridsize>>],
           out |-> returned("make_game", -1, -1, <<>>, 0, FALSE, 0)]

\* seed: a new stream for self.np_random.
seed(e, s) == [e EXCEPT !.np_random = s]

-----------------------------------------------------------------------------
(* Observations.                                                           *)

\* state_to_img: a copy of the cached image with the player's colour at the
\* current position; the assignment raises when the position is no index of
\* the image.
state_to_img_raises(e) ==
  LET rows == Len(e.art_img)
      cols == IF rows = 0 THEN 0 ELSE Len(e.art_img[1])
  IN ~(index_ok(e.state[1], rows) /\ index_ok(e.state[2], cols))

state_to_img(e) ==
  LET rows == Len(e.art_img)
      cols == Len(e.art_img[1])
      i == index_of(e.state[1], rows) + 1
      j == index_of(e.state[2], cols) + 1
  IN [e.art_img EXCEPT ![i][j] = FG_COLORS[PLAYER_CHAR]]

\* state_to_oh: a vector of gridsize*gridsize zeros with a one at
\* state_i*gridsize + state_j; the assignment raises when that is no index
\* of the vector.
state_to_oh_raises(e) ==
  ~index_ok(e.state[1] * e.gridsize + e.state[2], e.gridsize * e.gridsize)

state_to_oh(e) ==
  LET n == e.gridsize * e.gridsize
      k == index_of(e.state[1] * e.gridsize + e.state[2], n) + 1
  IN [x \in 1..n |-> IF x = k THEN 1 ELSE 0]

\* The tail of reset and of step: the observation in the configured mode.
observation_raises(e) ==
  IF e.img_observation THEN state_to_img_raises(e) ELSE state_to_oh_raises(e)

observation(e) == IF e.img_observation THEN state_to_img(e) ELSE state_to_oh(e)

-----------------------------------------------------------------------------
(* reset and step.                                                         *)

\* reset with the player painted into the cached image itself (state_to_img
\* without the copy).
reset_without_copy(e) ==
  LET e1 == [e EXCEPT !.state = e.start_state]
  IN IF observation_raises(e1)
     THEN [env |-> e1, out |-> raised("reset", -1, -1, "IndexError")]
     ELSE [env |-> IF e1.img_observation
                   THEN [e1 EXCEPT !.art_img = state_to_img(e1)] ELSE e1,
           out |-> returned("reset", -1, -1, observation(e1), 0, FALSE, 0)]

reset(e) ==
  LET e1 == [e EXCEPT !.state = e.start_state]
  IN IF observation_raises(e1)
     THEN [env |-> e1, out |-> raised("reset", -1, -1, "IndexError")]
     ELSE [env |-> e1, out |-> returned("reset", -1, -1, observation(e1), 0, FALSE, 0)]

\* The action step applies: the argument, or the random one when the trial
\* on stochasticity came out 1.
effective_action(action, trial, random_action) ==
  IF trial = 1 THEN random_action ELSE action

\* The test with > for >= on the column.
in_grid_column_off_by_one(new_state, gridsize) ==
  ~(new_state[1] < 0 \/ new_state[1] >= gridsize \/
    new_state[2] < 0 \/ new_state[2] > gridsize)

\* The test that guards self.state = new_state.
in_grid(new_state, gridsize) ==
  ~(new_state[1] < 0 \/ new_state[1] >= gridsize \/
    new_state[2] < 0 \/ new_state[2] >= gridsize)

\* The movement rule on a torus: a candidate past an edge comes back in at
\* the opposite edge.
move_wraps(e, action) ==
  LET new_state == add(e.state, Actions[action])
  IN [e EXCEPT !.state = <<new_state[1] % e.gridsize, new_state[2] % e.gridsize>>]

\* The movement rule with the position updated in place: after reset or
\* make_game the position is the start_state array itself, which an update
\* in place changes with it.
move_in_place(e, action) ==
  LET new_state == add(e.state, Actions[action])
  IN IF in_grid(new_state, e.gridsize)
     THEN IF e.state = e.start_state
          THEN [e EXCEPT !.state = new_state, !.start_state = new_state]
          ELSE [e EXCEPT !.state = new_state]
     ELSE e

\* The movement rule with the goal absorbing: no move off the goal.
move_goal_absorbing(e, action) ==
  LET new_state == add(e.state, Actions[action])
  IN IF in_grid(new_state, e.gridsize) /\ e.state # e.goal_state
     THEN [e EXCEPT !.state = new_state]
     ELSE e

\* The movement rule of step.
move(e, action) ==
  LET new_state == add(e.state, Actions[action])
  IN IF in_grid(new_state, e.gridsize) THEN [e EXCEPT !.state = new_state] ELSE e

\* The comparison with .any() for .all().
at_goal_any(e) == e.state[1] = e.goal_state[1] \/ e.state[2] = e.goal_state[2]

\* (self.state == self.goal_state).all()
at_goal(e) == e.state = e.goal_state

\* The membership test with the coordinates swapped.
on_obstacle_swapped(e) == contains(e.obstacle_states, <<e.state[2], e.state[1]>>)

\* self.state.tolist() in self.obstacle_states
on_obstacle(e) == contains(e.obstacle_states, e.state)

\* done with the episode length of the docstring enforced.
step_done_after_limit(e) == at_goal(e) \/ nsteps >= EpisodeLimit

step_done(e) == at_goal(e)

\* The goal reward one digit short.
step_reward_small(e) == IF at_goal(e) THEN 100 ELSE -1

step_reward(e) == IF at_goal(e) THEN 1000 ELSE -1

step_cost(e) == IF at_goal(e) THEN 0 ELSE IF on_obstacle(e) THEN 1 ELSE 0

\* The second draw of step, np.random.randint(0, 4), is made only when the
\* trial came out 1; -1 stands for no draw.
random_draws(trial) == IF trial = 1 THEN randint(0, 4) ELSE {-1}

\* step with the observation taken before the movement rule is applied.
step_stale_observation(e, action, trial, random_action) ==
  LET eff == effective_action(action, trial, random_action)
  IN IF eff \notin DOMAIN Actions
     THEN [env |-> e, out |-> raised("step", action, eff, "KeyError")]
     ELSE LET e1 == move(e, eff)
          IN IF observation_raises(e)
             THEN [env |-> e1, out |-> raised("step", action, eff, "IndexError")]
             ELSE [env |-> e1,
                   out |-> returned("step", action, eff, observation(e),
                                    step_reward(e1), step_done(e1), step_cost(e1))]

\* step with the constraint cost added up in self.cumulat_constraint.
step_accumulates(e, action, trial, random_action) ==
  LET eff == effective_action(action, trial, random_action)
  IN IF eff \notin DOMAIN Actions
     THEN [env |-> e, out |-> raised("step", action, eff, "KeyError")]
     ELSE LET e1 == move(e, eff)
              e2 == [e1 EXCEPT !.cumulat_constraint = @ + step_cost(e1)]
          IN IF observation_raises(e1)
             THEN [env |-> e2, out |-> raised("step", action, eff, "IndexError")]
             ELSE [env |-> e2,
                   out |-> returned("step", action, eff, observation(e1),
                                    step_reward(e1), step_done(e1), step_cost(e1))]

\* step, given the draws from np.random: the trial on stochasticity and the
\* random action (used only when the trial came out 1).  ACTIONS[action]
\* raises a KeyError for an action that is no key of the table.
step(e, action, trial, random_action) ==
  LET eff == effective_action(action, trial, random_action)
  IN IF eff \notin DOMAIN Actions
     THEN [env |-> e, out |-> raised("step", action, eff, "KeyError")]
     ELSE LET e1 == move(e, eff)
          IN IF observation_raises(e1)
             THEN [env |-> e1, out |-> raised("step", action, eff, "IndexError")]
             ELSE [env |-> e1,
                   out |-> returned("step", action, eff, observation(e1),
                                    step_reward(e1), step_done(e1), step_cost(e1))]

-----------------------------------------------------------------------------
(* The environment after __init__.                                         *)

\* The attributes before the first make_game (None in the source).
blank ==
  [gridsize |-> 0, rho |-> 0, stochasticity |-> 0, cumulat_constraint |-> 0,
   state |-> <<0, 0>>, start_state |-> <<0, 0>>, goal_state |-> <<0, 0>>,
   img_observation |-> FALSE, action_space |-> 0, observation_space |-> <<>>,
   art |-> <<>>, obstacle_states |-> <<>>, art_img |-> <<>>, np_random |-> 0]

\* __init__: seed(42), then make_game() with its default arguments.  The
\* default gridsize, 32, is scaled down to MaxGridsize.
constructed ==
  {make_game(seed(blank, DefaultSeed), MaxGridsize, DefaultRho, DefaultStochasticity,
             FALSE, alpha, cells).env :
     alpha \in alpha_draws(MaxGridsize), cells \in cell_draws(MaxGridsize, DefaultRho)}

Init ==
  /\ env \in constructed
  /\ out = returned("init", -1, -1, <<>>, 0, FALSE, 0)
  /\ twin = blank
  /\ twinOut = out
  /\ nmakes = 0
  /\ nsteps = 0

-----------------------------------------------------------------------------
(* One run: the calls of a caller that catches the exceptions.             *)

\* A call of make_game on the environment e: its arguments, the draws of
\* build_asci_art and what they lead to.
MakeGameCall(e, e2, o2, gridsize, rho, stochasticity, img_observation, alpha, cells) ==
  IF draws_raise(gridsize, rho)
  THEN /\ e2 = make_game_failed(e, gridsize, rho, stochasticity)
       /\ o2 = raised("make_game", -1, -1, "ValueError")
  ELSE LET r == make_game(e, gridsize, rho, stochasticity, img_observation, alpha, cells)
       IN e2 = r.env /\ o2 = r.out

\* The draws of a call of make_game; one arbitrary pair where build_asci_art
\* raises before it has drawn both.
make_game_draws(gridsize, rho) ==
  IF draws_raise(gridsize, rho) THEN {<<0, <<>>>>}
  ELSE alpha_draws(gridsize) \X cell_draws(gridsize, rho)

\* A call of step on the environment e, given the draws from np.random.
\* binomial raises a ValueError for a stochasticity that is no probability.
StepCall(e, e2, o2, action, trial, random_action) ==
  IF binomial(e.stochasticity) = {}
  THEN e2 = e /\ o2 = raised("step", action, -1, "ValueError")
  ELSE LET r == step(e, action, trial, random_action)
       IN e2 = r.env /\ o2 = r.out

\* The draws of a call of step; one arbitrary pair where binomial raises.
step_draws(e) ==
  IF binomial(e.stochasticity) = {} THEN {<<0, -1>>}
  ELSE {d \in binomial(e.stochasticity) \X (randint(0, 4) \cup {-1}) :
          d[2] \in random_draws(d[1])}

MakeGame ==
  \E gridsize \in GridSizes, rho \in Rhos, stochasticity \in Stochasticities,
     img_observation \in BOOLEAN :
    /\ nmakes < MaxMakeGames
    /\ nmakes' = nmakes + 1
    /\ \E d \in make_game_draws(gridsize, rho) :
         MakeGameCall(env, env', out', gridsize, rho, stochasticity, img_observation,
                      d[1], d[2])
    /\ UNCHANGED <<twin, twinOut, nsteps>>

Reset ==
  /\ env' = reset(env).env
  /\ out' = reset(env).out
  /\ UNCHANGED <<twin, twinOut, nmakes, nsteps>>

Step ==
  \E action \in ActionInputs :
    /\ \E d \in step_draws(env) : StepCall(env, env', out', action, d[1], d[2])
    /\ UNCHANGED <<twin, twinOut, nmakes, nsteps>>

Seed ==
  \E s \in Seeds :
    /\ env' = seed(env, s)
    /\ out' = returned("seed", -1, -1, <<s>>, 0, FALSE, 0)
    /\ UNCHANGED <<twin, twinOut, nmakes, nsteps>>

Next == MakeGame \/ Reset \/ Step \/ Seed

Spec == Init /\ [][Next]_vars

-----------------------------------------------------------------------------
(* A long episode: steps counted by the caller in nsteps, on an environment *)
(* configured with make_game(gridsize=3, stochasticity=0), past the        *)
(* episode length of the docstring.                                        *)

LongInit ==
  /\ env \in {make_game(e, 3, DefaultRho, 0, FALSE, d[1], d[2]).env :
                e \in constructed, d \in make_game_draws(3, DefaultRho)}
  /\ out = returned("make_game", -1, -1, <<>>, 0, FALSE, 0)
  /\ twin = blank
  /\ twinOut = returned("init", -1, -1, <<>>, 0, FALSE, 0)
  /\ nmakes = 1
  /\ nsteps = 0

LongStep ==
  \E action \in ActionInputs :
    /\ nsteps < EpisodeLimit + MaxExtraSteps
    /\ nsteps' = nsteps + 1
    /\ \E d \in step_draws(env) : StepCall(env, env', out', action, d[1], d[2])
    /\ UNCHANGED <<twin, twinOut, nmakes>>

LongReset ==
  /\ env' = reset(env).env
  /\ out' = reset(env).out
  /\ nsteps' = 0
  /\ UNCHANGED <<twin, twinOut, nmakes>>

LongNext == LongStep \/ LongReset

SpecLong == LongInit /\ [][LongNext]_vars

-----------------------------------------------------------------------------
(* Two runs: env and twin are two environments, each in a process of its   *)
(* own, that get the same calls with the same arguments.  The draws from   *)
(* self.np_random agree in the two runs as long as the two streams were    *)
(* seeded alike; the draws from np.random are each run's own.              *)

\* build_asci_art drawing from the process-wide stream.
generation_source_global == "np.random"

\* The stream build_asci_art draws from.
generation_source == "self.np_random"

\* The stream step draws from.
step_source == "np.random"

\* Two runs see the same draws from a stream when it is the seeded one and
\* both were seeded alike.
same_draws(source, e1, e2) ==
  source = "self.np_random" /\ e1.np_random = e2.np_random

TwinInit ==
  /\ env \in constructed
  /\ out = returned("init", -1, -1, <<>>, 0, FALSE, 0)
  /\ twin = env
  /\ twinOut = out
  /\ nmakes = 0
  /\ nsteps = 0

TwinMakeGame ==
  \E gridsize \in GridSizes, rho \in Rhos, stochasticity \in Stochasticities,
     img_observation \in BOOLEAN :
    /\ nmakes < MaxMakeGames
    /\ nmakes' = nmakes + 1
    /\ \E d1 \in make_game_draws(gridsize, rho), d2 \in make_game_draws(gridsize, rho) :
         /\ same_draws(generation_source, env, twin) => d1 = d2
         /\ MakeGameCall(env, env', out', gridsize, rho, stochasticity, img_observation,
                         d1[1], d1[2])
         /\ MakeGameCall(twin, twin', twinOut', gridsize, rho, stochasticity,
                         img_observation, d2[1], d2[2])
    /\ UNCHANGED nsteps

TwinReset ==
  /\ env' = reset(env).env
  /\ out' = reset(env).out
  /\ twin' = reset(twin).env
  /\ twinOut' = reset(twin).out
  /\ UNCHANGED <<nmakes, nsteps>>

TwinStep ==
  \E action \in ActionInputs :
    /\ nsteps < MaxTwinSteps
    /\ nsteps' = nsteps + 1
    /\ \E d1 \in step_draws(env), d2 \in step_draws(twin) :
         /\ same_draws(step_source, env, twin) => d1 = d2
         /\ StepCall(env, env', out', action, d1[1], d1[2])
         /\ StepCall(twin, twin', twinOut', action, d2[1], d2[2])
    /\ UNCHANGED nmakes

TwinSeed ==
  \E s \in Seeds :
    /\ env' = seed(env, s)
    /\ out' = returned("seed", -1, -1, <<s>>, 0, FALSE, 0)
    /\ twin' = seed(twin, s)
    /\ twinOut' = out'
    /\ UNCHANGED <<nmakes, nsteps>>

TwinNext == TwinMakeGame \/ TwinReset \/ TwinStep \/ TwinSeed

SpecTwin == TwinInit /\ [][TwinNext]_vars

-----------------------------------------------------------------------------
(* Episodes on the 3x3 grid without obstacles and without random           *)
(* overrides: the environment is configured once, the caller steps with    *)
(* the actions of the table until a step returns done, and reset starts    *)
(* the next episode.  nsteps counts the steps of the episode.              *)

EpisodeInit ==
  /\ \E e \in constructed, img_observation \in BOOLEAN, d \in make_game_draws(3, 0) :
       /\ env = make_game(e, 3, 0, 0, img_observation, d[1], d[2]).env
       /\ out = make_game(e, 3, 0, 0, img_observation, d[1], d[2]).out
  /\ twin = blank
  /\ twinOut = returned("init", -1, -1, <<>>, 0, FALSE, 0)
  /\ nmakes = 1
  /\ nsteps = 0

EpisodeStep ==
  \E action \in DOMAIN Actions :
    /\ ~out.done
    /\ nsteps < MaxEpisodeSteps
    /\ nsteps' = nsteps + 1
    /\ \E d \in step_draws(env) : StepCall(env, env', out', action, d[1], d[2])
    /\ UNCHANGED <<twin, twinOut, nmakes>>

EpisodeReset ==
  /\ env' = reset(env).env
  /\ out' = reset(env).out
  /\ nsteps' = 0
  /\ UNCHANGED <<twin, twinOut, nmakes>>

EpisodeNext == EpisodeStep \/ EpisodeReset

SpecEpisode == EpisodeInit /\ [][EpisodeNext]_vars

-----------------------------------------------------------------------------
(* What the claims speak of, stated on the state and not through the       *)
(* operators above.                                                        *)

\* The last call was a step that returned.
StepReturned(o) == o.op = "step" /\ o.raised = ""

\* The coordinates of the cells of a grid held as a sequence of rows.
CellsOf(art) == {p \in (0..(Len(art) - 1)) \X (0..(Len(art) - 1)) : TRUE}

CellAt(art, p) == art[p[1] + 1][p[2] + 1]

\* p is a cell of the grid and holds ch.
Holds(art, p, ch) == p \in CellsOf(art) /\ CellAt(art, p) = ch

\* p lies outside a grid of the given size.
OutsideGrid(p, gridsize) ==
  ~(p[1] \in 0..(gridsize - 1) /\ p[2] \in 0..(gridsize - 1))

\* The encoding of the actions the docstring and the specification give:
\* 0 down, 1 left, 2 up, 3 right, row 0 being the top row.
DocumentedDelta ==
  (0 :> <<1, 0>>) @@ (1 :> <<0, -1>>) @@ (2 :> <<-1, 0>>) @@ (3 :> <<0, 1>>)

-----------------------------------------------------------------------------
(* C1 *)

\* C1: every grid make_game produces for gridsize >= 2 and rho in [0,1] has
\* exactly one Goal cell, in row 0, no Obstacle cell in row 0 or in the last
\* row, and a start cell (gridsize-1, gridsize-1) that is neither Obstacle
\* nor Goal.
C1_GenerationInvariant ==
  (out.op \in {"init", "make_game"} /\ out.raised = "" /\ env.gridsize >= 2
     /\ env.rho \in 0..100)
  => LET art == env.art
         last == env.gridsize - 1
         goals == {p \in CellsOf(art) : CellAt(art, p) = GOAL_CHAR}
     IN /\ Len(art) = env.gridsize
        /\ \A i \in 1..Len(art) : Len(art[i]) = env.gridsize
        /\ Cardinality(goals) = 1
        /\ \A p \in goals : p[1] = 0
        /\ \A j \in 0..last : /\ CellAt(art, <<0, j>>) # OBSTACLE_CHAR
                              /\ CellAt(art, <<last, j>>) # OBSTACLE_CHAR
        /\ CellAt(art, <<last, last>>) \notin {OBSTACLE_CHAR, GOAL_CHAR}

\* A reconfiguration that generated a grid with obstacles.
C1_Witness ==
  /\ out.op = "make_game" /\ out.raised = ""
  /\ env.gridsize = MaxGridsize /\ env.rho = DefaultRho
  /\ Len(env.obstacle_states) >= 2

-----------------------------------------------------------------------------
(* C2 *)

\* C2: with stochasticity 0, a step with action a in {0,1,2,3} from a
\* position p of the grid moves the agent to p + delta(a) for the documented
\* encoding 0 = down (+1,0), 1 = left (0,-1), 2 = up (-1,0), 3 = right
\* (0,+1), whenever p + delta(a) is inside the grid.
C2_DocumentedEncoding ==
  [][(/\ StepReturned(out')
      /\ env.stochasticity = 0
      /\ out'.action \in DOMAIN DocumentedDelta
      /\ ~OutsideGrid(env.state, env.gridsize)
      /\ ~OutsideGrid(add(env.state, DocumentedDelta[out'.action]), env.gridsize))
     => env'.state = add(env.state, DocumentedDelta[out'.action])]_vars

-----------------------------------------------------------------------------
(* C3 *)

\* C3: a step that leaves the agent on the goal position returns reward
\* 1000 and done = true; every other step returns reward -1.
C3_GoalReward ==
  StepReturned(out)
  => IF env.state = env.goal_state
     THEN out.reward = 1000 /\ out.done = TRUE
     ELSE out.reward = -1

\* A step that reached the goal, and a step that did not.
C3_Witness ==
  /\ StepReturned(out)
  /\ env.state = env.goal_state
  /\ out.reward = 1000

-----------------------------------------------------------------------------
(* C4 *)

\* C4: a step returns constraint cost 1 exactly when the position after the
\* movement rule is an Obstacle cell of the grid, then with reward -1 and
\* done = false; otherwise the constraint cost is 0.
C4_ObstacleCost ==
  StepReturned(out)
  => /\ out.cost = (IF Holds(env.art, env.state, OBSTACLE_CHAR) THEN 1 ELSE 0)
     /\ out.cost = 1 => (out.reward = -1 /\ out.done = FALSE)

\* A step onto an obstacle.
C4_Witness ==
  /\ StepReturned(out)
  /\ Holds(env.art, env.state, OBSTACLE_CHAR)
  /\ out.cost = 1

-----------------------------------------------------------------------------
(* C5 *)

\* The step just taken applied a valid action whose candidate position lies
\* outside the grid.
Absorbed ==
  /\ out'.op = "step"
  /\ out'.eff \in DOMAIN Actions
  /\ OutsideGrid(add(env.state, Actions[out'.eff]), env.gridsize)

\* C5 as stated: whenever the candidate position of the effective action
\* lies outside the grid, step leaves the position unchanged and returns
\* constraint cost 0.
C5_BoundaryNoCost ==
  [][Absorbed => (env'.state = env.state /\ (out'.raised = "" => out'.cost = 0))]_vars

\* C5 as amended: whenever the candidate position of the effective action
\* lies outside the grid, step leaves the position unchanged, and the
\* collision itself adds no cost: the returned constraint cost is 1 if the
\* cell the agent stays on is an Obstacle cell and 0 otherwise.
C5_BoundaryAbsorption ==
  [][Absorbed
     => /\ env'.state = env.state
        /\ out'.raised = ""
           => out'.cost = (IF Holds(env.art, env.state, OBSTACLE_CHAR) THEN 1 ELSE 0)]_vars

\* A step absorbed by the boundary while the agent stands on an obstacle,
\* and the cost it returned.
C5_Witness ==
  /\ StepReturned(out)
  /\ out.eff \in DOMAIN Actions
  /\ OutsideGrid(add(env.state, Actions[out.eff]), env.gridsize)
  /\ Holds(env.art, env.state, OBSTACLE_CHAR)
  /\ out.cost = 1

-----------------------------------------------------------------------------
(* C6 *)

\* C6: two runs seeded with the same seed that make the same calls with the
\* same arguments get the same results: the same observation, reward, done
\* and constraint cost, and the same exceptions.
C6_Determinism == out = twinOut

-----------------------------------------------------------------------------
(* C7 *)

-----------------------------------------------------------------------------
(* C8 *)

\* C8: a step with an action outside {0,1,2,3} always fails with an error,
\* and leaves the position and the grid as they were.
C8_InvalidActionFails ==
  [][(out'.op = "step" /\ out'.action \notin 0..3)
     => (out'.raised # "" /\ env'.state = env.state /\ env'.art = env.art)]_vars

-----------------------------------------------------------------------------
(* C9 *)

\* C9: make_game fails with an error when called with gridsize < 2, or with
\* rho outside [0,1], or with stochasticity outside [0,1].  (make_game
\* stores these three arguments before anything can raise.)
C9_InvalidConfigurationFails ==
  (out.op = "make_game"
     /\ (env.gridsize < 2 \/ env.rho \notin 0..100 \/ env.stochasticity \notin 0..100))
  => out.raised # ""

-----------------------------------------------------------------------------
(* C10 *)

\* The observation of the start position (gridsize-1, gridsize-1) in the
\* configured mode.
StartPosition(e) == <<e.gridsize - 1, e.gridsize - 1>>

StartObservation(e) ==
  IF e.img_observation
  THEN [i \in 1..e.gridsize |->
          [j \in 1..e.gridsize |->
             IF <<i - 1, j - 1>> = StartPosition(e) THEN <<1, 0, 0>>
             ELSE IF Holds(e.art, <<i - 1, j - 1>>, GOAL_CHAR) THEN <<0, 1, 0>>
             ELSE IF Holds(e.art, <<i - 1, j - 1>>, OBSTACLE_CHAR) THEN <<0, 0, 1>>
             ELSE <<0, 0, 0>>]]
  ELSE [k \in 1..(e.gridsize * e.gridsize) |->
          IF k = e.gridsize * e.gridsize THEN 1 ELSE 0]

\* C10: from any reachable state, reset sets the position to the start
\* (gridsize-1, gridsize-1) and returns the start observation; a reset that
\* follows a reset returns the same observation and changes nothing.
C10_ResetIdempotence ==
  [][out'.op = "reset"
     => /\ env'.state = StartPosition(env)
        /\ out'.raised = ""
        /\ out'.obs = StartObservation(env)
        /\ [env' EXCEPT !.state = env.state] = env
        /\ out.op = "reset" => (env' = env /\ out' = out)]_vars

-----------------------------------------------------------------------------
(* C11 *)

\* The vector of the given length with a single 1, at the 0-based index k.
OneHot(length, k) == [x \in 1..length |-> IF x = k + 1 THEN 1 ELSE 0]

\* A reset or a step returned an observation.
ObservationReturned(o) == o.op \in {"reset", "step"} /\ o.raised = ""

\* C11: in one-hot mode every observation returned by reset or step is a
\* vector of length gridsize * gridsize whose only 1 is at index
\* row * gridsize + col of the position after the call, all other entries 0.
C11_OneHotObservation ==
  (ObservationReturned(out) /\ ~env.img_observation) =>
    /\ Len(out.obs) = env.gridsize * env.gridsize
    /\ out.obs = OneHot(env.gridsize * env.gridsize,
                        env.state[1] * env.gridsize + env.state[2])
    /\ Cardinality({x \in 1..Len(out.obs) : out.obs[x] = 1}) = 1

\* A step in one-hot mode moved the agent off the start and returned the
\* vector of the new position.
C11_Witness ==
  /\ StepReturned(out)
  /\ ~env.img_observation
  /\ env.gridsize = MaxGridsize
  /\ env.state # env.start_state
  /\ out.obs[env.state[1] * env.gridsize + env.state[2] + 1] = 1

-----------------------------------------------------------------------------
(* C12 *)

\* The colour of a cell without the player: black for Empty and for the
\* start marker, green for Goal, blue for Obstacle.
StaticColour(ch) ==
  IF ch = GOAL_CHAR THEN <<0, 1, 0>>
  ELSE IF ch = OBSTACLE_CHAR THEN <<0, 0, 1>>
  ELSE <<0, 0, 0>>

\* C12: in image mode every observation returned by reset or step shows the
\* player's colour (red) at exactly the cell of the current position,
\* whatever the cell holds, and the static colour at every other cell; the
\* cached static image still shows the static colour at every cell.
C12_ImageObservation ==
  (ObservationReturned(out) /\ env.img_observation) =>
    /\ env.state \in CellsOf(env.art)
    /\ Len(out.obs) = Len(env.art)
    /\ \A p \in CellsOf(env.art) :
         /\ CellAt(out.obs, p) =
              IF p = env.state THEN <<1, 0, 0>> ELSE StaticColour(CellAt(env.art, p))
         /\ CellAt(env.art_img, p) = StaticColour(CellAt(env.art, p))

\* A step in image mode put the player on the goal: the observation shows
\* red there and the cached image still shows green.
C12_Witness ==
  /\ StepReturned(out)
  /\ env.img_observation
  /\ Holds(env.art, env.state, GOAL_CHAR)
  /\ CellAt(out.obs, env.state) = <<1, 0, 0>>
  /\ CellAt(env.art_img, env.state) = <<0, 1, 0>>

-----------------------------------------------------------------------------
(* C13 *)

\* The length of a shortest path from the start (2,2) to the goal of the
\* 3x3 grid: two rows up and |2 - goalcol| columns across.
ShortestEpisode(e) ==
  2 + (IF e.goal_state[2] <= 2 THEN 2 - e.goal_state[2] ELSE e.goal_state[2] - 2)

\* C13: with gridsize 3, rho 0 and stochasticity 0, for any goal column, no
\* action sequence from the start reaches the goal in fewer than
\* 2 + |2 - goalcol| steps; the step that reaches it returns reward 1000
\* and done, and every step before it returns reward -1, not done, cost 0.
C13_FullEpisode ==
  StepReturned(out) =>
    IF env.state = env.goal_state
    THEN nsteps >= ShortestEpisode(env) /\ out.reward = 1000 /\ out.done
    ELSE out.reward = -1 /\ ~out.done /\ out.cost = 0

\* An episode of exactly 2 + |2 - goalcol| steps reached the goal in column
\* 0: its last step returned reward 1000 and done.
C13_Witness ==
  /\ StepReturned(out)
  /\ env.goal_state = <<0, 0>>
  /\ env.state = env.goal_state
  /\ nsteps = ShortestEpisode(env)
  /\ nsteps = 4
  /\ out.reward = 1000 /\ out.done

-----------------------------------------------------------------------------
(* C14 *)

\* C14: in every state reachable by make_game calls (successful or
\* failing), resets and steps, the current position lies inside the grid of
\* the instance's current gridsize: 0 <= row < gridsize and
\* 0 <= col < gridsize.
C14_PositionInBounds == ~OutsideGrid(env.state, env.gridsize)

-----------------------------------------------------------------------------
(* C15 *)

\* C15 as stated: a step whose candidate position lies outside the grid
\* never returns reward 1000 or done = true.
C15_AbsorbedNeverGoal ==
  [][(Absorbed /\ out'.raised = "") => (out'.reward # 1000 /\ ~out'.done)]_vars

\* C15, amended: a step whose candidate position lies outside the grid
\* returns reward 1000 or done = true only when the agent stood on the goal
\* cell before the step (and so still stands there); from every other cell
\* an absorbed step returns reward -1 and done = false.
C15_AbsorbedGoalOnlyOnGoal ==
  [][(Absorbed /\ out'.raised = "") =>
       /\ env'.state = env.state
       /\ (out'.reward = 1000 \/ out'.done) => env.state = env.goal_state
       /\ env.state # env.goal_state => (out'.reward = -1 /\ ~out'.done)]_vars

\* A step from a cell other than the goal was absorbed at the edge of the
\* grid: it returned reward -1 and done = false.
C15_Witness ==
  /\ StepReturned(out)
  /\ out.eff \in DOMAIN Actions
  /\ env.gridsize = Len(env.art)
  /\ OutsideGrid(add(env.state, Actions[out.eff]), env.gridsize)
  /\ env.state # env.goal_state
  /\ env.state[1] = 0
  /\ out.reward = -1 /\ ~out.done

-----------------------------------------------------------------------------
(* C16 *)

\* C16: step and reset change nothing of the instance but the current
\* position: the grid, the goal position, the obstacle set, the start
\* position and the configuration (gridsize, rho, stochasticity, observation
\* mode) are after the call what they were before it, whether the call
\* returns or raises.
C16_Frame ==
  [][out'.op \in {"step", "reset"} =>
       /\ [env' EXCEPT !.state = env.state] = env
       /\ env'.art = env.art /\ env'.art_img = env.art_img
       /\ env'.goal_state = env.goal_state
       /\ env'.obstacle_states = env.obstacle_states
       /\ env'.start_state = env.start_state
       /\ env'.gridsize = env.gridsize /\ env'.rho = env.rho
       /\ env'.stochasticity = env.stochasticity
       /\ env'.img_observation = env.img_observation]_vars

\* Steps have moved the agent off the start of a grid with obstacles: the
\* start position is still (gridsize-1, gridsize-1) and the goal and the
\* obstacles are still those of the grid.
C16_Witness ==
  /\ StepReturned(out)
  /\ env.state # env.start_state
  /\ env.start_state = <<env.gridsize - 1, env.gridsize - 1>>
  /\ env.gridsize = Len(env.art)
  /\ env.goal_state = argwhere(env.art, GOAL_CHAR)[1]
  /\ env.obstacle_states = argwhere(env.art, OBSTACLE_CHAR)
  /\ Len(env.obstacle_states) >= 1

-----------------------------------------------------------------------------
(* C17 *)

\* C17: after every make_game that returns, on a fresh instance or in the
\* middle of an episode, the current position equals the start position
\* (gridsize-1, gridsize-1), goal_state is the coordinate of the one Goal
\* cell of the new grid, and obstacle_states holds exactly the Obstacle
\* cells of the new grid.
C17_ConfiguredState ==
  (out.op = "make_game" /\ out.raised = "") =>
    /\ Len(env.art) = env.gridsize
    /\ env.start_state = <<env.gridsize - 1, env.gridsize - 1>>
    /\ env.state = env.start_state
    /\ {p \in CellsOf(env.art) : CellAt(env.art, p) = GOAL_CHAR} = {env.goal_state}
    /\ {env.obstacle_states[k] : k \in 1..Len(env.obstacle_states)} =
         {p \in CellsOf(env.art) : CellAt(env.art, p) = OBSTACLE_CHAR}
    /\ Len(env.obstacle_states) =
         Cardinality({p \in CellsOf(env.art) : CellAt(env.art, p) = OBSTACLE_CHAR})

\* A make_game in image mode returned a 3x3 grid with an obstacle, the
\* position at its start (2,2).
C17_Witness ==
  /\ out.op = "make_game" /\ out.raised = ""
  /\ nmakes = 1
  /\ env.img_observation
  /\ env.gridsize = 3
  /\ env.state = <<2, 2>>
  /\ Len(env.obstacle_states) >= 1

-----------------------------------------------------------------------------
(* C18 *)

-----------------------------------------------------------------------------
(* C19 *)

\* C19: the goal is not absorbing.  After a step that returned done = true
\* the next step is carried out like any other: when the candidate position
\* of its effective action is in bounds the agent moves off the goal and
\* the step returns reward -1 and done = false; when it is not, the agent
\* stays on the goal and the step returns reward 1000 and done = true again.
C19_GoalNotAbsorbing ==
  [][(StepReturned(out) /\ out.done /\ out'.op = "step" /\ out'.eff \in DOMAIN Actions) =>
       LET candidate == add(env.state, Actions[out'.eff])
       IN IF OutsideGrid(candidate, env.gridsize)
          THEN /\ env'.state = env.state
               /\ out'.raised = ""
               /\ out'.reward = 1000 /\ out'.done
          ELSE /\ env'.state = candidate
               /\ env'.state # env.goal_state
               /\ out'.raised = "" => (out'.reward = -1 /\ ~out'.done)]_vars

\* The agent stood on the goal and stepped against the edge of the grid:
\* the step returned reward 1000 and done = true once more.
C19_Witness ==
  /\ StepReturned(out)
  /\ out.eff \in DOMAIN Actions
  /\ OutsideGrid(add(env.state, Actions[out.eff]), env.gridsize)
  /\ env.state = env.goal_state
  /\ out.reward = 1000 /\ out.done

-----------------------------------------------------------------------------
(* C20 *)

\* C20: cumulat_constraint is 0 in every reachable state: no step (a step
\* with constraint cost 1 included), reset or make_game changes it.
C20_CumulativeCostZero == env.cumulat_constraint = 0

\* A step in image mode returned constraint cost 1, and cumulat_constraint
\* is still 0.
C20_Witness ==
  /\ StepReturned(out)
  /\ out.cost = 1
  /\ env.img_observation
  /\ env.cumulat_constraint = 0

====
